---------------------------- MODULE Spec2Model ----------------------------
(***************************************************************************)
(* A model of the Software/ package of The_real_Fufi:                      *)
(*   gsde_class.py   the gSDE action distribution and its tanh bijector    *)
(*   agent_class.py  the actor-critic Agent                                *)
(*   environment.py  make_env / vectorize_env                              *)
(*   wrappers.py     HistoryWrapper                                        *)
(*                                                                         *)
(* Every method is an operator from the receiver and the arguments to the  *)
(* pair (receiver after the call, outcome); an action applies one method.  *)
(* An outcome is a returned value, a returned None, or a raised exception. *)
(* Tensors are records [shape, data] with the data in row-major order.     *)
(* Real-valued library functions (exp, log1p, tanh, atanh) are kept as     *)
(* symbolic applications <<name, argument>>.                                *)
(***************************************************************************)
EXTENDS Integers, Sequences, FiniteSets, TLC

VARIABLES
    gsde,       \* the gSDE instance: its attributes
    glast,      \* the last call made on the gSDE instance and its outcome
    agent,      \* the Agent instance
    alast,      \* the last call made on the Agent and its outcome
    rng,        \* the number of draws taken from the shared random generator
    vlast,      \* the last vectorize_env call and its outcome
    wrapper,    \* the HistoryWrapper instance: configuration and history
    wlast,      \* the last reset/step of the wrapper and what it returned
    recorded,   \* every entry written to the history since it was last zero-filled
    wasReset    \* reset() has been called on the wrapper

vars == <<gsde, glast, agent, alast, rng, vlast, wrapper, wlast, recorded, wasReset>>

-----------------------------------------------------------------------------
(* Bounds of the model *)

MaxActionDim == 2
MaxLatentDim == 2
MaxBatch == 2

-----------------------------------------------------------------------------
(* Outcomes of a call *)

Return(v) == [kind |-> "value", err |-> "", val |-> <<v>>]
ReturnNone == [kind |-> "none", err |-> "", val |-> <<>>]
Raise(e) == [kind |-> "raise", err |-> e, val |-> <<>>]

NoCall == [op |-> "", arg |-> <<>>, out |-> ReturnNone]

(* The value of an intermediate result v bound to the parameter of K: the  *)
(* local variable of a method body.                                        *)
With(v, K(_)) == K(v)

(* An attribute that has never been assigned is <<>>, an assigned one <<v>>. *)
Unset == <<>>
IsSet(a) == a # <<>>

-----------------------------------------------------------------------------
(* Tensors *)

Prod(shape) == IF Len(shape) = 0 THEN 1
               ELSE IF Len(shape) = 1 THEN shape[1]
               ELSE IF Len(shape) = 2 THEN shape[1] * shape[2]
               ELSE shape[1] * shape[2] * shape[3]

Tensors(shape, vals) == {[shape |-> shape, data |-> d] : d \in [1..Prod(shape) -> vals]}

TLen(t) == t.shape[1]

MapT(F(_), t) == [shape |-> t.shape, data |-> [i \in 1..Len(t.data) |-> F(t.data[i])]]

(* th.mm(a, b) accepts two 2-D tensors whose inner dimensions agree and    *)
(* raises RuntimeError otherwise; its result has shape (rows a, columns b). *)
MmOk(a, b) == Len(a.shape) = 2 /\ Len(b.shape) = 2 /\ a.shape[2] = b.shape[1]

-----------------------------------------------------------------------------
(* gsde_class.py: names and the tanh bijector *)

(* The names bound at module level of gsde_class.py: its imports and its   *)
(* two classes.  A free name of a method body resolves here or raises      *)
(* NameError (none of the names used below is a builtin).                  *)
GsdeGlobals ==
    {"Any", "Dict", "List", "Optional", "Tuple", "TypeVar", "Union",
     "np", "th", "spaces", "nn", "Distribution", "TanhBijector", "gSDE"}

GsdeResolves(name) == name \in GsdeGlobals

(* TanhBijector.forward: th.tanh, elementwise *)
forward(x) == MapT(LAMBDA v : <<"tanh", v>>, x)

(* TanhBijector.inverse: atanh of the value clamped to [-1 + eps, 1 - eps] *)
inverse(y) ==
    MapT(LAMBDA v : IF v <= -1 THEN <<"atanh", "-1+eps">>
                    ELSE IF v >= 1 THEN <<"atanh", "1-eps">>
                    ELSE <<"atanh", v>>, y)

-----------------------------------------------------------------------------
(* gsde_class.py: class gSDE *)

(* gSDE.__init__.  latent_sde_dim, mean_actions and log_std are set to     *)
(* None (<<>>); no other line of the class assigns latent_sde_dim.  The    *)
(* attributes _latent_sde, distribution, weights_dist, exploration_mat and *)
(* exploration_matrices are not created by the constructor: Unset.         *)
gSDE_init(action_dim, full_std, use_expln, squash_output, learn_features) ==
    [action_dim |-> action_dim,
     latent_sde_dim |-> <<>>,
     mean_actions |-> <<>>,
     log_std |-> <<>>,
     use_expln |-> use_expln,
     full_std |-> full_std,
     learn_features |-> learn_features,
     bijector |-> squash_output,
     latent_sde |-> Unset,
     distribution |-> Unset,
     weights_dist |-> Unset,
     exploration_mat |-> Unset,
     exploration_matrices |-> Unset]

(* One entry of the std: exp(v), or under use_expln the masked sum         *)
(* exp(v)*(v <= 0) + (log1p(v*(v > 0) + eps) + 1)*(v > 0).                 *)
StdEntry(use_expln, v) ==
    IF use_expln
    THEN IF v <= 0 THEN <<"exp", v>> ELSE <<"log1p_plus_1", v>>
    ELSE <<"exp", v>>

(* Broadcasting th.ones(rows, cols) * std, for a std of one or two dims.   *)
BroadcastOk(rows, cols, s) ==
    \/ Len(s) = 1 /\ (s[1] = cols \/ s[1] = 1 \/ cols = 1)
    \/ Len(s) = 2 /\ (s[1] = rows \/ s[1] = 1 \/ rows = 1)
                  /\ (s[2] = cols \/ s[2] = 1 \/ cols = 1)

Max(a, b) == IF a >= b THEN a ELSE b

Broadcast(rows, cols, std) ==
    LET sr == IF Len(std.shape) = 2 THEN std.shape[1] ELSE 1
        sc == IF Len(std.shape) = 2 THEN std.shape[2] ELSE std.shape[1]
        R == Max(rows, sr)
        C == Max(cols, sc)
    IN [shape |-> <<R, C>>,
        data |-> [k \in 1..(R * C) |->
            LET i == ((k - 1) \div C) + 1
                j == ((k - 1) % C) + 1
                si == IF sr = 1 THEN 1 ELSE i
                sj == IF sc = 1 THEN 1 ELSE j
            IN std.data[(si - 1) * sc + sj]]]

(* gSDE.get_std *)
get_std(self, log_std) ==
    LET std == MapT(LAMBDA v : StdEntry(self.use_expln, v), log_std)
    IN IF self.full_std THEN Return(std)
       ELSE IF ~IsSet(self.latent_sde_dim) THEN Raise("AssertionError")
       ELSE IF ~BroadcastOk(self.latent_sde_dim[1], self.action_dim, std.shape)
            THEN Raise("RuntimeError")
       ELSE Return(Broadcast(self.latent_sde_dim[1], self.action_dim, std))

(* A reparametrised draw of the weights distribution: a fresh sample of    *)
(* the given shape, identified by its place d in the generator's stream.   *)
rsample(std, prefix, d) == [shape |-> prefix \o std.shape, std |-> std, draw |-> d]

(* gSDE.sample_weights; g is the generator's state, which its two draws    *)
(* advance.                                                                *)
sample_weights(self, g, log_std, batch_size) ==
    With(get_std(self, log_std), LAMBDA s :
        IF s.kind = "raise" THEN [self |-> self, rng |-> g, out |-> s]
        ELSE IF ~GsdeResolves("Normal")
             THEN [self |-> self, rng |-> g, out |-> Raise("NameError")]
        ELSE [self |-> [self EXCEPT !.weights_dist = s.val,
                                    !.exploration_mat = <<rsample(s.val[1], <<>>, g + 1)>>],
              rng |-> g + 2,
              out |-> Return(rsample(s.val[1], <<batch_size>>, g + 2))])

(* The object a module-level name of gsde_class.py is bound to. *)
GsdeGlobalValue(name) == [object |-> name]

(* gSDE.get_noise, lines 161-170: the product of the latent batch with the *)
(* shared exploration matrix, or the batched product with one matrix a row *)
noise_product(self, latent_sde) ==
    IF TLen(latent_sde) = 1 \/ TLen(latent_sde) # TLen(self.exploration_matrices[1])
    THEN IF ~MmOk(latent_sde, self.exploration_mat[1]) THEN Raise("RuntimeError")
         ELSE Return([shape |-> <<latent_sde.shape[1], self.exploration_mat[1].shape[2]>>,
                      op |-> "mm", a |-> latent_sde, b |-> self.exploration_mat[1]])
    ELSE IF ~(/\ Len(self.exploration_matrices[1].shape) = 3
              /\ self.exploration_matrices[1].shape[2] = latent_sde.shape[2])
         THEN Raise("RuntimeError")
         ELSE Return([shape |-> <<latent_sde.shape[1], self.exploration_matrices[1].shape[3]>>,
                      op |-> "bmm", a |-> latent_sde, b |-> self.exploration_matrices[1]])

(* gSDE.get_noise.  Line 160 passes the free name log_std (not an          *)
(* attribute of self) to sample_weights with the default batch_size = 1.   *)
get_noise(self, g, latent_sde) ==
    IF ~GsdeResolves("log_std")
    THEN [self |-> self, rng |-> g, out |-> Raise("NameError")]
    ELSE With(sample_weights(self, g, GsdeGlobalValue("log_std"), 1), LAMBDA sw :
            IF sw.out.kind = "raise" THEN sw
            ELSE With([sw.self EXCEPT !.exploration_matrices = sw.out.val], LAMBDA self2 :
                    [self |-> self2, rng |-> sw.rng,
                     out |-> noise_product(self2, latent_sde)]))

(* gSDE.get_distribution: stores the latent batch, computes the variance   *)
(* and builds the base Gaussian, which it returns without storing it.      *)
get_distribution(self, mean_actions, log_std, latent_sde) ==
    With([self EXCEPT !.latent_sde = <<latent_sde>>], LAMBDA self2 :
    With(get_std(self2, log_std), LAMBDA s :
        IF s.kind = "raise" THEN [self |-> self2, out |-> s]
        ELSE IF ~MmOk(latent_sde, s.val[1])
             THEN [self |-> self2, out |-> Raise("RuntimeError")]
        ELSE IF ~GsdeResolves("Normal")
             THEN [self |-> self2, out |-> Raise("NameError")]
        ELSE [self |-> self2,
              out |-> Return([mean |-> mean_actions,
                              scale |-> [op |-> "sqrt_variance_plus_eps",
                                         a |-> latent_sde, b |-> s.val[1]]])]))

(* gSDE.sample *)
sample(self, g) ==
    IF ~IsSet(self.latent_sde)
    THEN [self |-> self, rng |-> g, out |-> Raise("AttributeError")]
    ELSE With(get_noise(self, g, self.latent_sde[1]), LAMBDA n :
        IF n.out.kind = "raise" THEN n
        ELSE IF ~GsdeResolves("get_distribution") \/ ~GsdeResolves("latent_sde")
             THEN [self |-> n.self, rng |-> n.rng, out |-> Raise("NameError")]
        ELSE With(get_distribution(n.self, n.self.mean_actions, n.self.log_std,
                                   GsdeGlobalValue("latent_sde")), LAMBDA d :
            IF d.out.kind = "raise"
            THEN [self |-> d.self, rng |-> n.rng, out |-> d.out]
            ELSE With([op |-> "add", a |-> d.out.val[1].mean, b |-> n.out.val[1]],
                      LAMBDA actions :
                    [self |-> [d.self EXCEPT !.distribution = d.out.val],
                     rng |-> n.rng,
                     out |-> IF self.bijector
                             THEN Return([op |-> "tanh", a |-> actions])
                             ELSE Return(actions)])))

(* gSDE.log_prob *)
log_prob(self, actions) ==
    With(IF self.bijector THEN inverse(actions) ELSE actions, LAMBDA gaussian_actions :
        IF ~IsSet(self.distribution) THEN Raise("AttributeError")
        ELSE IF ~GsdeResolves("sum_independent_dims") THEN Raise("NameError")
        ELSE Return([op |-> "log_prob", dist |-> self.distribution[1],
                     x |-> gaussian_actions, corrected |-> self.bijector]))

(* gSDE.entropy *)
entropy(self) ==
    IF self.bijector THEN ReturnNone
    ELSE IF ~GsdeResolves("sum_independent_dims") THEN Raise("NameError")
    ELSE IF ~IsSet(self.distribution) THEN Raise("AttributeError")
    ELSE Return([op |-> "entropy", dist |-> self.distribution[1]])

(* mode answering None while no distribution is stored *)
mode_none_when_unset(self) ==
    IF ~IsSet(self.distribution) THEN ReturnNone
    ELSE IF self.bijector THEN Return(forward(self.distribution[1].mean))
    ELSE Return(self.distribution[1].mean)

(* gSDE.mode *)
mode(self) ==
    IF ~IsSet(self.distribution) THEN Raise("AttributeError")
    ELSE IF self.bijector THEN Return(forward(self.distribution[1].mean))
    ELSE Return(self.distribution[1].mean)

-----------------------------------------------------------------------------
(* The gSDE instance under its callers *)

MaxDraws == 4

LogStdVals == {0, 1}
LatentVals == {1}
MeanVals == {0}
ActionVals == {-1, 0, 1}

Fill(shape, v) == [shape |-> shape, data |-> [i \in 1..Prod(shape) |-> v]]

(* 0, 1, 2, ...: a tensor whose entries differ *)
Ramp(shape) == [shape |-> shape, data |-> [i \in 1..Prod(shape) |-> i - 1]]

(* log_std arguments for an instance of a action dimensions: the reduced   *)
(* parameter of shape (a,) and the full one of shape (latent_dim, a)       *)
LogStdInputs(a) ==
    {Fill(<<a>>, v) : v \in LogStdVals} \cup {Ramp(<<a>>)}
    \cup {Fill(<<l, a>>, v) : l \in 1..MaxLatentDim, v \in LogStdVals}

(* latent batches: shape (batch, latent_dim) *)
LatentInputs == {Fill(<<b, l>>, v) : b \in 1..MaxBatch, l \in 1..MaxLatentDim, v \in LatentVals}

(* action means and actions: shape (batch, action_dim) *)
MeanInputs(a) == {Fill(<<b, a>>, v) : b \in 1..MaxBatch, v \in MeanVals}
ActionInputs(a) == {Fill(<<b, a>>, v) : b \in 1..MaxBatch, v \in ActionVals}

(* A distribution build: the caller stores a base Gaussian over the given  *)
(* means in the attribute distribution, which makes the instance Ready.    *)
build_distribution(self, mean_actions) ==
    [self EXCEPT !.distribution = <<[mean |-> mean_actions, scale |-> [op |-> "given"]]>>]

GsdeOnly == UNCHANGED <<agent, alast, vlast, wrapper, wlast, recorded, wasReset>>

GetStd ==
    \E ls \in LogStdInputs(gsde.action_dim) :
        /\ glast' = [op |-> "get_std", arg |-> ls.shape, out |-> get_std(gsde, ls)]
        /\ UNCHANGED <<gsde, rng>>
        /\ GsdeOnly

SampleWeights ==
    \E ls \in LogStdInputs(gsde.action_dim), b \in 1..MaxBatch :
        LET r == sample_weights(gsde, rng, ls, b)
        IN /\ rng + 2 <= MaxDraws
           /\ gsde' = r.self
           /\ rng' = r.rng
           /\ glast' = [op |-> "sample_weights", arg |-> <<>>, out |-> r.out]
           /\ GsdeOnly

GetNoise ==
    \E lat \in LatentInputs :
        LET r == get_noise(gsde, rng, lat)
        IN /\ rng + 2 <= MaxDraws
           /\ gsde' = r.self
           /\ rng' = r.rng
           /\ glast' = [op |-> "get_noise", arg |-> lat.shape, out |-> r.out]
           /\ GsdeOnly

(* the means come from the same batch of observations as the latent batch *)
GetDistribution ==
    \E ls \in LogStdInputs(gsde.action_dim), lat \in LatentInputs, v \in MeanVals :
        LET r == get_distribution(gsde, Fill(<<lat.shape[1], gsde.action_dim>>, v), ls, lat)
        IN /\ gsde' = r.self
           /\ glast' = [op |-> "get_distribution", arg |-> <<>>, out |-> r.out]
           /\ UNCHANGED rng
           /\ GsdeOnly

Sample ==
    LET r == sample(gsde, rng)
    IN /\ rng + 2 <= MaxDraws
       /\ gsde' = r.self
       /\ rng' = r.rng
       /\ glast' = [op |-> "sample", arg |-> <<>>, out |-> r.out]
       /\ GsdeOnly

LogProb ==
    \E actions \in ActionInputs(gsde.action_dim) :
        /\ glast' = [op |-> "log_prob", arg |-> <<>>, out |-> log_prob(gsde, actions)]
        /\ UNCHANGED <<gsde, rng>>
        /\ GsdeOnly

Entropy ==
    /\ glast' = [op |-> "entropy", arg |-> <<>>, out |-> entropy(gsde)]
    /\ UNCHANGED <<gsde, rng>>
    /\ GsdeOnly

Mode ==
    /\ glast' = [op |-> "mode", arg |-> <<>>, out |-> mode(gsde)]
    /\ UNCHANGED <<gsde, rng>>
    /\ GsdeOnly

BuildDistribution ==
    \E m \in MeanInputs(gsde.action_dim) :
        /\ gsde' = build_distribution(gsde, m)
        /\ glast' = [op |-> "build_distribution", arg |-> <<>>, out |-> ReturnNone]
        /\ UNCHANGED rng
        /\ GsdeOnly

NextGSDE ==
    \/ GetStd
    \/ SampleWeights
    \/ GetNoise
    \/ GetDistribution
    \/ Sample
    \/ LogProb
    \/ Entropy
    \/ Mode
    \/ BuildDistribution

-----------------------------------------------------------------------------
(* wrappers.py: class HistoryWrapper *)

MaxSteps == 3
MaxActDim == 2
MaxStepCalls == 2

beta == 1

Zeros(n) == [i \in 1..n |-> 0]

RECURSIVE Flatten(_)
Flatten(rows) == IF rows = <<>> THEN <<>> ELSE Head(rows) \o Flatten(Tail(rows))

(* np.array(..., dtype=np.float32) on an integer: exact up to 2^24, and    *)
(* rounded to an even integer in the next binade.                          *)
Float32(v) ==
    IF -16777216 <= v /\ v <= 16777216 THEN v
    ELSE IF v % 2 = 0 THEN v
    ELSE IF ((v - 1) \div 2) % 2 = 0 THEN v - 1 ELSE v + 1

Float32Array(rows) == [i \in 1..Len(rows) |-> [j \in 1..Len(rows[i]) |-> Float32(rows[i][j])]]

(* HistoryWrapper._make_history: steps zero vectors shaped like step_low,  *)
(* the observation bounds concatenated with the action bounds.             *)
make_history(self) == [i \in 1..self.steps |-> Zeros(self.obs_dim + self.act_dim)]

(* HistoryWrapper.__init__ (steps > 1 is asserted) *)
HistoryWrapper_init(obs_dim, act_dim, steps, use_continuity_cost) ==
    LET self == [steps |-> steps,
                 use_continuity_cost |-> use_continuity_cost,
                 beta |-> beta,
                 obs_dim |-> obs_dim,
                 act_dim |-> act_dim,
                 history |-> <<>>]
    IN [self EXCEPT !.history = make_history(self)]

(* HistoryWrapper._continuity_cost: obs[-1][-1] and obs[-2][-1] are the    *)
(* last elements of the two newest rows of the stacked history.            *)
continuity_cost(obs) ==
    LET newest == obs[Len(obs)]
        previous == obs[Len(obs) - 1]
        action == newest[Len(newest)]
        last_action == previous[Len(previous)]
    IN (action - last_action) * (action - last_action)

(* step with pop() in place of pop(0): the newest slot is dropped *)
step_history_pop_newest(history, obs, action) ==
    Append(SubSeq(history, 1, Len(history) - 1), obs \o action)

(* The history after step's pop(0) and append *)
step_history(history, obs, action) == Append(Tail(history), obs \o action)

(* HistoryWrapper.step; env is what the wrapped env.step(action) returned *)
step(self, action, env) ==
    LET history == step_history(self.history, env.obs, action)
        obs == Float32Array(history)
        cost == continuity_cost(obs)
    IN [self |-> [self EXCEPT !.history = history],
        ret |-> IF self.use_continuity_cost
                THEN [obs |-> Flatten(obs),
                      reward |-> env.reward - self.beta * cost,
                      done |-> env.done,
                      info |-> [continuity_cost |-> <<cost>>]]
                ELSE [obs |-> Flatten(obs),
                      reward |-> env.reward,
                      done |-> env.done,
                      info |-> env.info]]

(* The history after reset's re-creation, pop(0) and append *)
reset_history(self, env_obs) == Append(Tail(make_history(self)), env_obs \o Zeros(self.act_dim))

(* HistoryWrapper.reset; env_obs is the first component of env.reset() *)
reset(self, env_obs) ==
    LET history == reset_history(self, env_obs)
    IN [self |-> [self EXCEPT !.history = history],
        ret |-> [obs |-> Flatten(Float32Array(history)),
                 reward |-> 0, done |-> FALSE,
                 info |-> [continuity_cost |-> Unset]]]

-----------------------------------------------------------------------------
(* The wrapper over an environment *)

ObsInputs == {<<1>>, <<2>>}
ActVals == {-1, 1}
RewardVals == {0, 1}

WrapperActions(act_dim) == [1..act_dim -> ActVals]

(* what the wrapped environment's step returns: the episode ends in       *)
(* observation 2, and the info dict is empty                               *)
EnvSteps ==
    {[obs |-> o, reward |-> r, done |-> (o = <<2>>), info |-> [continuity_cost |-> Unset]] :
        o \in ObsInputs, r \in RewardVals}

NoWrapperCall == [op |-> "", action |-> <<>>, env_reward |-> 0,
                  ret |-> [obs |-> <<>>, reward |-> 0, done |-> FALSE,
                           info |-> [continuity_cost |-> Unset]]]

WrapperOnly == UNCHANGED <<gsde, glast, agent, alast, rng, vlast>>

WrapperStep ==
    \E action \in WrapperActions(wrapper.act_dim), env \in EnvSteps :
        LET r == step(wrapper, action, env)
        IN /\ Len(recorded) < wrapper.steps + MaxStepCalls
           /\ wrapper' = r.self
           /\ wlast' = [op |-> "step", action |-> action,
                        env_reward |-> env.reward, ret |-> r.ret]
           /\ recorded' = Append(recorded, env.obs \o action)
           /\ UNCHANGED wasReset
           /\ WrapperOnly

WrapperReset ==
    \E env_obs \in ObsInputs :
        LET r == reset(wrapper, env_obs)
        IN /\ wrapper' = r.self
           /\ wlast' = [op |-> "reset", action |-> <<>>, env_reward |-> 0, ret |-> r.ret]
           /\ recorded' = [i \in 1..(wrapper.steps - 1) |->
                               Zeros(wrapper.obs_dim + wrapper.act_dim)]
                          \o <<env_obs \o Zeros(wrapper.act_dim)>>
           /\ wasReset' = TRUE
           /\ WrapperOnly

NextWrapper ==
    \/ WrapperStep
    \/ WrapperReset

-----------------------------------------------------------------------------
(* agent_class.py: class Agent *)

(* The names bound at module level of agent_class.py *)
AgentGlobals ==
    {"os", "np", "torch", "nn", "Categorical", "summary", "gym", "datetime",
     "gSDE", "get_checkpoint_name", "layer_init", "Agent"}

AgentResolves(name) == name \in AgentGlobals

(* The parameters gSDE.__init__ accepts *)
gSDE_init_params ==
    {"action_dim", "full_std", "use_expln", "squash_output", "learn_features", "epsilon"}

(* The keyword arguments get_action_and_value passes to gSDE(...) *)
gSDE_call_kwargs ==
    {"action_dim", "observation_dim", "observation", "mean_actions", "log_std"}

(* Agent.__init__: the flag and the sizes read from the envs' spaces *)
Agent_init(use_sde, obs_dim, act_dim) ==
    [use_sde |-> use_sde, obs_dim |-> obs_dim, act_dim |-> act_dim]

(* Agent.get_value *)
get_value(self, x) == Return([op |-> "critic", x |-> x])

(* Agent.get_action_and_value; action is <<>> when omitted, g is the       *)
(* generator's state, which sampling an action advances.                   *)
get_action_and_value(self, g, x, action) ==
    With([op |-> "actor_mean", x |-> x], LAMBDA action_mean :
    With([op |-> "critic", x |-> x], LAMBDA value :
    IF self.use_sde
    THEN IF ~(gSDE_call_kwargs \subseteq gSDE_init_params)
         THEN [rng |-> g, out |-> Raise("TypeError")]
         ELSE With(gSDE_init(self.act_dim, TRUE, FALSE, FALSE, FALSE), LAMBDA probs :
              With(IF action = <<>> THEN sample(probs, g)
                   ELSE [self |-> probs, rng |-> g, out |-> Return(action[1])], LAMBDA s :
                IF s.out.kind = "raise" THEN [rng |-> s.rng, out |-> s.out]
                ELSE With(log_prob(s.self, s.out.val[1]), LAMBDA lp :
                     With(entropy(s.self), LAMBDA en :
                        IF lp.kind = "raise" THEN [rng |-> s.rng, out |-> lp]
                        ELSE IF en.kind = "raise" THEN [rng |-> s.rng, out |-> en]
                        ELSE [rng |-> s.rng,
                              out |-> Return(<<s.out.val, lp.val, en.val, <<value>>>>)]))))
    ELSE IF ~AgentResolves("Normal") THEN [rng |-> g, out |-> Raise("NameError")]
         ELSE With([mean |-> action_mean, scale |-> [op |-> "exp_logstd"]], LAMBDA probs :
              With(IF action = <<>>
                   THEN <<[op |-> "normal_sample", dist |-> probs, draw |-> g + 1]>>
                   ELSE action, LAMBDA a :
                [rng |-> IF action = <<>> THEN g + 1 ELSE g,
                 out |-> Return(<<a, <<[op |-> "log_prob", dist |-> probs, x |-> a[1]]>>,
                                  <<[op |-> "entropy", dist |-> probs]>>, <<value>>>>)]))))

-----------------------------------------------------------------------------
(* The Agent under the training loop *)

AgentObsVals == {0, 1}

AgentObservations(obs_dim) ==
    UNION {Tensors(<<b, obs_dim>>, AgentObsVals) : b \in 1..MaxBatch}

AgentOnly == UNCHANGED <<gsde, glast, vlast, wrapper, wlast, recorded, wasReset>>

GetValue ==
    \E x \in AgentObservations(agent.obs_dim) :
        /\ alast' = [op |-> "get_value", arg |-> [x |-> x, action |-> <<>>],
                     out |-> get_value(agent, x)]
        /\ UNCHANGED <<agent, rng>>
        /\ AgentOnly

GetActionAndValue ==
    \E x \in AgentObservations(agent.obs_dim),
       action \in {<<>>} \cup {<<a>> : a \in ActionInputs(agent.act_dim)} :
        LET r == get_action_and_value(agent, rng, x, action)
        IN /\ rng + 2 <= MaxDraws
           /\ alast' = [op |-> "get_action_and_value",
                        arg |-> [x |-> x, action |-> action], out |-> r.out]
           /\ rng' = r.rng
           /\ UNCHANGED agent
           /\ AgentOnly

NextAgent ==
    \/ GetValue
    \/ GetActionAndValue

-----------------------------------------------------------------------------
(* environment.py: make_env and vectorize_env *)

MaxEnvs == 3
MaxSeed == 4

(* HistoryWrapper(env, 2, True) in make_env *)
EnvHistorySteps == 2

(* A gym action space: a Box has low/high bounds, a Discrete has none. *)
ActionSpaces ==
    {[kind |-> "Box", size |-> n] : n \in 1..MaxActDim}
    \cup {[kind |-> "Discrete", size |-> n] : n \in 1..MaxActDim}

HasLow(space) == space.kind = "Box"

(* make_env(...).thunk: the environment built for index idx.  The          *)
(* HistoryWrapper constructor reads action_space.low.                      *)
make_env(space, seed, idx, capture_video) ==
    IF ~HasLow(space) THEN Raise("AttributeError")
    ELSE Return([env |-> HistoryWrapper_init(1, space.size, EnvHistorySteps, TRUE),
                 video |-> capture_video /\ idx = 0,
                 seed |-> seed])

(* vectorize_env: SyncVectorEnv calls every thunk, then the assertion on   *)
(* envs.single_action_space.                                               *)
vectorize_env(space, seed, capture_video, num_envs) ==
    LET made == [i \in 1..num_envs |-> make_env(space, seed + (i - 1), i - 1, capture_video)]
    IN IF \E i \in 1..num_envs : made[i].kind = "raise"
       THEN made[CHOOSE i \in 1..num_envs :
                    /\ made[i].kind = "raise"
                    /\ \A j \in 1..(i - 1) : made[j].kind # "raise"]
       ELSE IF space.kind # "Discrete" THEN Raise("AssertionError")
       ELSE Return([i \in 1..num_envs |-> made[i].val[1]])

EnvOnly == UNCHANGED <<gsde, glast, agent, alast, rng, wrapper, wlast, recorded, wasReset>>

VectorizeEnv ==
    \E space \in ActionSpaces, seed \in 0..MaxSeed, capture_video \in BOOLEAN,
       num_envs \in 1..MaxEnvs :
        /\ vlast' = [op |-> "vectorize_env",
                     arg |-> [space |-> space, seed |-> seed,
                              capture_video |-> capture_video, num_envs |-> num_envs],
                     out |-> vectorize_env(space, seed, capture_video, num_envs)]
        /\ EnvOnly

NextEnv == VectorizeEnv

-----------------------------------------------------------------------------
(* Specifications: each component under its callers, the others at rest *)

InitGSDE ==
    /\ gsde \in {gSDE_init(a, f, e, s, l) :
                    a \in 1..MaxActionDim, f \in BOOLEAN, e \in BOOLEAN,
                    s \in BOOLEAN, l \in BOOLEAN}
    /\ glast = NoCall
    /\ rng = 0
    /\ agent = Agent_init(FALSE, 1, 1)
    /\ alast = NoCall
    /\ vlast = NoCall
    /\ wrapper = HistoryWrapper_init(1, 1, EnvHistorySteps, TRUE)
    /\ wlast = NoWrapperCall
    /\ recorded = make_history(wrapper)
    /\ wasReset = FALSE

InitAgent ==
    /\ gsde = gSDE_init(1, TRUE, FALSE, FALSE, FALSE)
    /\ glast = NoCall
    /\ rng = 0
    /\ agent \in {Agent_init(u, o, a) :
                    u \in BOOLEAN, o \in 1..MaxLatentDim, a \in 1..MaxActionDim}
    /\ alast = NoCall
    /\ vlast = NoCall
    /\ wrapper = HistoryWrapper_init(1, 1, EnvHistorySteps, TRUE)
    /\ wlast = NoWrapperCall
    /\ recorded = make_history(wrapper)
    /\ wasReset = FALSE

InitEnv ==
    /\ gsde = gSDE_init(1, TRUE, FALSE, FALSE, FALSE)
    /\ glast = NoCall
    /\ rng = 0
    /\ agent = Agent_init(FALSE, 1, 1)
    /\ alast = NoCall
    /\ vlast = NoCall
    /\ wrapper = HistoryWrapper_init(1, 1, EnvHistorySteps, TRUE)
    /\ wlast = NoWrapperCall
    /\ recorded = make_history(wrapper)
    /\ wasReset = FALSE

InitWrapper ==
    /\ gsde = gSDE_init(1, TRUE, FALSE, FALSE, FALSE)
    /\ glast = NoCall
    /\ rng = 0
    /\ agent = Agent_init(FALSE, 1, 1)
    /\ alast = NoCall
    /\ vlast = NoCall
    /\ wrapper \in {HistoryWrapper_init(1, a, n, c) :
                        a \in 1..MaxActDim, n \in 2..MaxSteps, c \in BOOLEAN}
    /\ wlast = NoWrapperCall
    /\ recorded = make_history(wrapper)
    /\ wasReset = FALSE

SpecGSDE == InitGSDE /\ [][NextGSDE]_vars
SpecAgent == InitAgent /\ [][NextAgent]_vars
SpecEnv == InitEnv /\ [][NextEnv]_vars
SpecWrapper == InitWrapper /\ [][NextWrapper]_vars

Init ==
    /\ gsde \in {gSDE_init(a, f, e, s, l) :
                    a \in 1..MaxActionDim, f \in BOOLEAN, e \in BOOLEAN,
                    s \in BOOLEAN, l \in BOOLEAN}
    /\ glast = NoCall
    /\ rng = 0
    /\ agent \in {Agent_init(u, o, a) :
                    u \in BOOLEAN, o \in 1..MaxLatentDim, a \in 1..MaxActionDim}
    /\ alast = NoCall
    /\ vlast = NoCall
    /\ wrapper \in {HistoryWrapper_init(1, a, n, c) :
                        a \in 1..MaxActDim, n \in 2..MaxSteps, c \in BOOLEAN}
    /\ wlast = NoWrapperCall
    /\ recorded = make_history(wrapper)
    /\ wasReset = FALSE

Next == NextGSDE \/ NextAgent \/ NextEnv \/ NextWrapper

Spec == Init /\ [][Next]_vars

-----------------------------------------------------------------------------
(* Properties *)

Uninitialized == ~IsSet(gsde.distribution)
Ready == IsSet(gsde.distribution)

(* C1: after sample() the instance is Ready and sample() has returned the  *)
(* action, and log_prob on a Ready instance returns a value: neither call  *)
(* raises.                                                                 *)
C1_SampleThenLogProb ==
    /\ glast.op = "sample" => (glast.out.kind = "value" /\ Ready)
    /\ (glast.op = "log_prob" /\ Ready) => glast.out.kind = "value"

(* C2, as stated: from the Uninitialized state each of log_prob, entropy   *)
(* and mode ends in an error, with or without a bijector.                  *)
C2_UninitializedRaises ==
    (glast.op \in {"log_prob", "entropy", "mode"} /\ Uninitialized)
        => glast.out.kind = "raise"

(* C2, amended: from the Uninitialized state log_prob and mode end in an   *)
(* error; entropy ends in an error when no bijector is configured and      *)
(* returns None when one is.                                               *)
C2_UninitializedRaisesOrSentinel ==
    /\ (glast.op \in {"log_prob", "mode"} /\ Uninitialized)
            => glast.out.kind = "raise"
    /\ (glast.op = "entropy" /\ Uninitialized /\ ~gsde.bijector)
            => glast.out.kind = "raise"
    /\ (glast.op = "entropy" /\ Uninitialized /\ gsde.bijector)
            => glast.out.kind = "none"

(* C2 witness: entropy was called on an Uninitialized instance that has a  *)
(* bijector and returned None.                                             *)
C2_Witness ==
    /\ glast.op = "entropy"
    /\ Uninitialized
    /\ gsde.bijector
    /\ glast.out.kind = "none"

C4_SingleMatrixNoise ==
    (/\ glast.op = "get_noise"
     /\ \/ glast.arg[1] = 1
        \/ ~IsSet(gsde.exploration_matrices)
        \/ glast.arg[1] # TLen(gsde.exploration_matrices[1]))
        => /\ glast.out.kind = "value"
           /\ glast.out.val[1].op = "mm"
           /\ glast.out.val[1].shape = <<glast.arg[1], gsde.action_dim>>

(* C5: get_action_and_value returns the 4-tuple (action, log_prob,         *)
(* entropy, value), whose first component is the supplied action when one  *)
(* is supplied.                                                            *)
C5_ActionAndValue ==
    alast.op = "get_action_and_value" =>
        /\ alast.out.kind = "value"
        /\ Len(alast.out.val[1]) = 4
        /\ alast.arg.action # <<>> => alast.out.val[1][1] = alast.arg.action

(* C6: vectorize_env returns the environments for a continuous (Box)       *)
(* action space and raises for a Discrete one.                             *)
C6_ContinuousOnly ==
    vlast.op = "vectorize_env" =>
        /\ vlast.arg.space.kind = "Box" => vlast.out.kind = "value"
        /\ vlast.arg.space.kind = "Discrete" => vlast.out.kind = "raise"

LastN(seq, n) == SubSeq(seq, Len(seq) - n + 1, Len(seq))

ActionPart(slot) == SubSeq(slot, wrapper.obs_dim + 1, wrapper.obs_dim + wrapper.act_dim)

(* C7: the history always holds exactly steps slots; after a reset and any *)
(* number of steps the returned observation is the flattening, oldest      *)
(* first, of the last steps entries of [zero padding, reset_obs||0,        *)
(* obs_1||a_1, ...]; right after a reset every slot but the newest is zero *)
(* and the newest slot's action part is zero.                              *)
C7_SlidingWindow ==
    /\ Len(wrapper.history) = wrapper.steps
    /\ wasReset => wlast.ret.obs = Flatten(LastN(recorded, wrapper.steps))
    /\ wlast.op = "reset" =>
        /\ \A i \in 1..(wrapper.steps - 1) :
                wrapper.history[i] = Zeros(wrapper.obs_dim + wrapper.act_dim)
        /\ ActionPart(wrapper.history[wrapper.steps]) = Zeros(wrapper.act_dim)

(* C7 witness: after a reset, enough steps were taken for the window to    *)
(* have slid past the reset entry.                                         *)
C7_Witness ==
    /\ wasReset
    /\ wlast.op = "step"
    /\ Len(recorded) >= 2 * wrapper.steps
    /\ wlast.ret.obs = Flatten(LastN(recorded, wrapper.steps))

SqDist(a, b) ==
    LET d == [i \in 1..Len(a) |-> (a[i] - b[i]) * (a[i] - b[i])]
        sum[i \in 0..Len(a)] == IF i = 0 THEN 0 ELSE sum[i - 1] + d[i]
    IN sum[Len(a)]

(* C8: with use_continuity_cost the cost of a step is the squared distance *)
(* between the action vectors of the two newest slots, the reward is the   *)
(* environment's minus beta times the cost, and info reports the cost;     *)
(* without it reward and info are the environment's.                       *)
C8_ContinuityCost ==
    wlast.op = "step" =>
        IF wrapper.use_continuity_cost
        THEN LET cost == SqDist(ActionPart(wrapper.history[wrapper.steps]),
                                ActionPart(wrapper.history[wrapper.steps - 1]))
             IN /\ wlast.ret.info.continuity_cost = <<cost>>
                /\ wlast.ret.reward = wlast.env_reward - beta * cost
        ELSE /\ wlast.ret.reward = wlast.env_reward
             /\ wlast.ret.info.continuity_cost = Unset

(* C9: with full_std = False, get_std of a log_std of shape (action_dim,)  *)
(* returns a matrix with action_dim columns whose rows are all identical.  *)
C9_BroadcastStd ==
    (glast.op = "get_std" /\ ~gsde.full_std /\ glast.arg = <<gsde.action_dim>>)
        => /\ glast.out.kind = "value"
           /\ Len(glast.out.val[1].shape) = 2
           /\ glast.out.val[1].shape[2] = gsde.action_dim
           /\ \A i \in 1..glast.out.val[1].shape[1], j \in 1..gsde.action_dim :
                glast.out.val[1].data[(i - 1) * gsde.action_dim + j]
                    = glast.out.val[1].data[j]

C11_AlwaysSingleMatrixPath ==
    glast.op = "get_noise" =>
        /\ IsSet(gsde.exploration_matrices)
        /\ TLen(gsde.exploration_matrices[1]) = 1
        /\ glast.out.kind = "value"
        /\ glast.out.val[1].op = "mm"

=============================================================================
